---- MODULE Spec2Model ----
(***************************************************************************)
(* Model of the Weather widget (src/src/Weather.jsx): the five pieces of   *)
(* React state, the lookups in flight, and one action per handler or per   *)
(* continuation of the asynchronous fetchWeather.                          *)
(*                                                                         *)
(* Strings typed into the input are sequences of one-character strings so  *)
(* that String.prototype.trim is computed, not assumed.  A nullable state  *)
(* value is the empty sequence Null or the one-element sequence Some(x).   *)
(* A continuation of fetchWeather runs to completion on the event loop, so *)
(* the setState calls it makes are one step.                               *)
(***************************************************************************)
EXTENDS Integers, Sequences, FiniteSets, TLC

\* ---- bounds -------------------------------------------------------------
MaxLen == 2          \* longest text a keystroke can leave in the input
MaxRequests == 3     \* lookups issued in one behaviour
MaxTenths == 1000    \* largest |main.temp| rendered, in tenths of a degree
MaxLiveLen == 1      \* longest text typed in the behaviours checked for progress

\* ---- values -------------------------------------------------------------
Null == <<>>
Some(x) == <<x>>

Whitespace == {" "}
Alphabet == {"a", " "}
InitialCity == <<"A", "c", "c", "r", "a">>
Queries == UNION {[1..n -> Alphabet] : n \in 0..MaxLen}

Units == {"celsius", "fahrenheit"}
Statuses == {200, 404, 500}
Temps == {0, 283}

NotFoundMessage == "City not found. Please check the spelling and try again."
GenericMessage == "Failed to fetch weather data. Please try again later."
\* messages of the TypeError a rejected fetch() carries (engine-defined)
NetworkErrorMessages == {"Failed to fetch", "Load failed"}
\* message of the SyntaxError a rejected response.json() carries
ParseErrorMessages == {"Unexpected end of JSON input"}

\* the JSON bodies the API can return for a query: name, main.temp (in tenths
\* of a degree Celsius) and weather[0].main
Snapshots(q) == [name : {q}, temp : Temps, main : {<<"C", "l", "e", "a", "r">>}]

VARIABLES city, weatherData, temp, error, loading,
          mounted, requests, issued, submitted, last

vars == <<city, weatherData, temp, error, loading,
          mounted, requests, issued, submitted, last>>

\* ---- pure helpers -------------------------------------------------------
\* a query with no character other than whitespace (what the observer counts)
IsBlank(s) == \A i \in 1..Len(s) : s[i] \in Whitespace

RECURSIVE TrimStart(_)
TrimStart(s) ==
    IF s = <<>> THEN s
    ELSE IF Head(s) \in Whitespace THEN TrimStart(Tail(s)) ELSE s

RECURSIVE TrimEnd(_)
TrimEnd(s) ==
    IF s = <<>> THEN s
    ELSE IF s[Len(s)] \in Whitespace THEN TrimEnd(SubSeq(s, 1, Len(s) - 1)) ELSE s

Trim(s) == TrimEnd(TrimStart(s))

\* JavaScript truthiness of a string-or-null and of an object-or-null
TruthyString(v) == v # Null /\ v[1] # ""
TruthyObject(v) == v # Null

ResponseOk(status) == status \in 200..299

ErrorMessageAlwaysGeneric(status) == GenericMessage

ErrorMessageFor(status) ==
    IF status = 404 THEN NotFoundMessage ELSE GenericMessage

\* ---- render -------------------------------------------------------------
ShowLoading == loading
ShowError == TruthyString(error)

ShowResultIgnoringError == TruthyObject(weatherData) /\ ~loading

ShowResult == TruthyObject(weatherData) /\ ~TruthyString(error) /\ ~loading

\* ---- convertTemp --------------------------------------------------------
DigitChars == <<"0", "1", "2", "3", "4", "5", "6", "7", "8", "9">>

RECURSIVE DecimalDigits(_)
DecimalDigits(n) ==
    IF n < 10 THEN <<DigitChars[n + 1]>>
    ELSE DecimalDigits(n \div 10) \o <<DigitChars[(n % 10) + 1]>>

\* Number.prototype.toFixed(1) of the number num/den (den > 0): the sign is
\* split off, n is the integer nearest to 10*|x| (the larger on a tie), its
\* digits are padded to two and the point goes before the last one
ToFixed1(num, den) ==
    LET a == IF num < 0 THEN -num ELSE num
        n == (20 * a + den) \div (2 * den)
        m == DecimalDigits(n)
        padded == IF Len(m) <= 1 THEN <<"0">> \o m ELSE m
        k == Len(padded)
    IN  (IF num < 0 THEN <<"-">> ELSE <<>>)
            \o SubSeq(padded, 1, k - 1) \o <<".">> \o <<padded[k]>>

\* unit is the stored value in tenths of a degree, so the number is unit/10
ConvertTempNoOffset(unit) ==
    IF temp = "fahrenheit" THEN ToFixed1(9 * unit, 50)
    ELSE ToFixed1(unit, 10)

ConvertTemp(unit) ==
    IF temp = "fahrenheit" THEN ToFixed1(9 * unit + 1600, 50)
    ELSE ToFixed1(unit, 10)

\* ---- WeatherIcon --------------------------------------------------------
CasePairs == {
    <<"A", "a">>, <<"B", "b">>, <<"C", "c">>, <<"D", "d">>, <<"E",
    "e">>, <<"F", "f">>, <<"G", "g">>, <<"H", "h">>, <<"I", "i">>,
    <<"J", "j">>, <<"K", "k">>, <<"L", "l">>, <<"M", "m">>, <<"N",
    "n">>, <<"O", "o">>, <<"P", "p">>, <<"Q", "q">>, <<"R", "r">>,
    <<"S", "s">>, <<"T", "t">>, <<"U", "u">>, <<"V", "v">>, <<"W",
    "w">>, <<"X", "x">>, <<"Y", "y">>, <<"Z", "z">>}

ToLowerChar(c) ==
    IF \E p \in CasePairs : p[1] = c
    THEN (CHOOSE p \in CasePairs : p[1] = c)[2]
    ELSE c

ToLowerCase(s) == [i \in 1..Len(s) |-> ToLowerChar(s[i])]

SunIcon == [component |-> "Sun", label |-> "Clear sky"]
RainIcon == [component |-> "CloudRain", label |-> "Rain"]
CloudIcon == [component |-> "Cloud", label |-> "Cloudy"]
DefaultIcon == [component |-> "Sun", label |-> "Default weather"]

WeatherIconCaseSensitive(condition) ==
    IF condition = <<"c", "l", "e", "a", "r">> THEN SunIcon
    ELSE IF condition = <<"r", "a", "i", "n">> THEN RainIcon
    ELSE IF condition = <<"c", "l", "o", "u", "d", "s">> THEN CloudIcon
    ELSE DefaultIcon

WeatherIcon(condition) ==
    LET c == ToLowerCase(condition)
    IN  IF c = <<"c", "l", "e", "a", "r">> THEN SunIcon
        ELSE IF c = <<"r", "a", "i", "n">> THEN RainIcon
        ELSE IF c = <<"c", "l", "o", "u", "d", "s">> THEN CloudIcon
        ELSE DefaultIcon

\* ---- fetchWeather -------------------------------------------------------
Event(op, id, status, body) == [op |-> op, id |-> id, status |-> status, body |-> body]

\* try { setLoading(true); setError(null); fetch(...) } up to the first await
FetchWeatherStartKeepError(cityName, op) ==
    /\ issued < MaxRequests
    /\ loading' = TRUE
    /\ error' = error
    /\ issued' = issued + 1
    /\ requests' = requests \cup {[id |-> issued + 1, q |-> cityName, stage |-> "fetch"]}
    /\ last' = Event(op, issued + 1, 0, Null)
    /\ UNCHANGED weatherData

FetchWeatherStart(cityName, op) ==
    /\ issued < MaxRequests
    /\ loading' = TRUE
    /\ error' = Null
    /\ issued' = issued + 1
    /\ requests' = requests \cup {[id |-> issued + 1, q |-> cityName, stage |-> "fetch"]}
    /\ last' = Event(op, issued + 1, 0, Null)
    /\ UNCHANGED weatherData

\* catch (error) { setError(error.message) } finally { setLoading(false) }
FailKeepLoading(r, status, msg) ==
    /\ error' = Some(msg)
    /\ loading' = loading
    /\ requests' = requests \ {r}
    /\ last' = Event("fail", r.id, status, Null)
    /\ UNCHANGED <<weatherData, issued>>

FailAndRetry(r, status, msg) ==
    /\ error' = Some(msg)
    /\ loading' = FALSE
    /\ IF issued < MaxRequests
       THEN /\ requests' = (requests \ {r}) \cup {[id |-> issued + 1, q |-> r.q, stage |-> "fetch"]}
            /\ issued' = issued + 1
       ELSE /\ requests' = requests \ {r}
            /\ issued' = issued
    /\ last' = Event("fail", r.id, status, Null)
    /\ UNCHANGED weatherData

FailClearSnapshot(r, status, msg) ==
    /\ error' = Some(msg)
    /\ loading' = FALSE
    /\ weatherData' = Null
    /\ requests' = requests \ {r}
    /\ last' = Event("fail", r.id, status, Null)
    /\ UNCHANGED issued

Fail(r, status, msg) ==
    /\ error' = Some(msg)
    /\ loading' = FALSE
    /\ requests' = requests \ {r}
    /\ last' = Event("fail", r.id, status, Null)
    /\ UNCHANGED <<weatherData, issued>>

\* fetch() rejects: no response at all
FetchRejects ==
    \E r \in requests, msg \in NetworkErrorMessages :
        /\ r.stage = "fetch"
        /\ Fail(r, 0, msg)
        /\ UNCHANGED <<city, temp, mounted, submitted>>

\* fetch() resolves with a response
ResponseArrives ==
    \E r \in requests, status \in Statuses :
        /\ r.stage = "fetch"
        /\ IF ~ResponseOk(status)
           THEN Fail(r, status, ErrorMessageFor(status))
           ELSE /\ requests' = (requests \ {r}) \cup {[r EXCEPT !.stage = "json"]}
                /\ last' = Event("response", r.id, status, Null)
                /\ UNCHANGED <<weatherData, error, loading, issued>>
        /\ UNCHANGED <<city, temp, mounted, submitted>>

JsonResolvesLatestOnly ==
    \E r \in requests :
        \E data \in Snapshots(r.q) :
            /\ r.stage = "json"
            /\ weatherData' = IF r.id = issued THEN Some(data) ELSE weatherData
            /\ loading' = IF r.id = issued THEN FALSE ELSE loading
            /\ requests' = requests \ {r}
            /\ last' = Event("success", r.id, 200, Some(data))
            /\ UNCHANGED <<city, temp, error, mounted, issued, submitted>>

\* response.json() resolves: setWeatherData(data), finally setLoading(false)
JsonResolves ==
    \E r \in requests :
        \E data \in Snapshots(r.q) :
            /\ r.stage = "json"
            /\ weatherData' = Some(data)
            /\ loading' = FALSE
            /\ requests' = requests \ {r}
            /\ last' = Event("success", r.id, 200, Some(data))
            /\ UNCHANGED <<city, temp, error, mounted, issued, submitted>>

\* response.json() rejects: the body of a 2xx response is not JSON
JsonRejects ==
    \E r \in requests, msg \in ParseErrorMessages :
        /\ r.stage = "json"
        /\ Fail(r, 200, msg)
        /\ UNCHANGED <<city, temp, mounted, submitted>>

\* ---- effects and handlers ----------------------------------------------
\* useEffect(() => { fetchWeather(city) }, [])
Mount ==
    /\ ~mounted
    /\ mounted' = TRUE
    /\ FetchWeatherStart(city, "mount")
    /\ UNCHANGED <<city, temp, submitted>>

HandleInput ==
    \E v \in Queries :
        /\ mounted
        /\ city' = v
        /\ last' = Event("input", 0, 0, Null)
        /\ UNCHANGED <<weatherData, temp, error, loading, mounted, requests, issued, submitted>>

HandleSubmitNoTrim ==
    /\ mounted
    /\ submitted' = submitted + (IF IsBlank(city) THEN 0 ELSE 1)
    /\ IF city # <<>>
       THEN FetchWeatherStart(city, "submit")
       ELSE /\ last' = Event("submit", 0, 0, Null)
            /\ UNCHANGED <<weatherData, error, loading, requests, issued>>
    /\ UNCHANGED <<city, temp, mounted>>

HandleSubmitClearInput ==
    /\ mounted
    /\ submitted' = submitted + (IF IsBlank(city) THEN 0 ELSE 1)
    /\ IF Trim(city) # <<>>
       THEN /\ FetchWeatherStart(city, "submit")
            /\ city' = <<>>
       ELSE /\ last' = Event("submit", 0, 0, Null)
            /\ UNCHANGED <<city, weatherData, error, loading, requests, issued>>
    /\ UNCHANGED <<temp, mounted>>

HandleSubmit ==
    /\ mounted
    /\ submitted' = submitted + (IF IsBlank(city) THEN 0 ELSE 1)
    /\ IF Trim(city) # <<>>
       THEN FetchWeatherStart(city, "submit")
       ELSE /\ last' = Event("submit", 0, 0, Null)
            /\ UNCHANGED <<weatherData, error, loading, requests, issued>>
    /\ UNCHANGED <<city, temp, mounted>>

SetTempAndRefetch ==
    \E unit \in Units :
        /\ mounted
        /\ temp' = unit
        /\ FetchWeatherStart(city, "toggle")
        /\ UNCHANGED <<city, mounted, submitted>>

SetTemp ==
    \E unit \in Units :
        /\ mounted
        /\ temp' = unit
        /\ last' = Event("toggle", 0, 0, Null)
        /\ UNCHANGED <<city, weatherData, error, loading, mounted, requests, issued, submitted>>

\* ---- specification ------------------------------------------------------
Init ==
    /\ city = InitialCity
    /\ weatherData = Null
    /\ temp = "celsius"
    /\ error = Null
    /\ loading = FALSE
    /\ mounted = FALSE
    /\ requests = {}
    /\ issued = 0
    /\ submitted = 0
    /\ last = Event("init", 0, 0, Null)

Next ==
    \/ Mount
    \/ HandleInput
    \/ HandleSubmit
    \/ SetTemp
    \/ FetchRejects
    \/ ResponseArrives
    \/ JsonResolves
    \/ JsonRejects

Spec == Init /\ [][Next]_vars

\* keystrokes that leave a short text in the input
HandleInputShort ==
    /\ HandleInput
    /\ Len(city') <= MaxLiveLen

NextLive ==
    \/ Mount
    \/ HandleInputShort
    \/ HandleSubmit
    \/ SetTemp
    \/ FetchRejects
    \/ ResponseArrives
    \/ JsonResolves
    \/ JsonRejects

\* every pending fetch() and every pending response.json() eventually settles
SpecLive ==
    /\ Init /\ [][NextLive]_vars
    /\ WF_vars(FetchRejects \/ ResponseArrives)
    /\ WF_vars(JsonResolves \/ JsonRejects)

\* ---- rendering a stored snapshot ---------------------------------------
\* the result panel: convertTemp(weatherData.main.temp) and
\* <WeatherIcon condition={weatherData.weather[0].main} />
Render ==
    /\ ShowResult
    /\ last' = Event("render", 0, 0,
                     Some([temperature |-> ConvertTemp(weatherData[1].temp),
                           icon |-> WeatherIcon(weatherData[1].main)]))
    /\ UNCHANGED <<city, weatherData, temp, error, loading, mounted, requests, issued, submitted>>

CaseVariants(w) ==
    {[i \in 1..Len(w) |-> IF b[i] THEN w[i] ELSE ToLowerChar(w[i])] :
        b \in [1..Len(w) -> BOOLEAN]}

TempInputs == (0 - MaxTenths)..MaxTenths
ConditionInputs ==
    CaseVariants(<<"C", "L", "E", "A", "R">>) \cup CaseVariants(<<"R", "A", "I", "N">>) \cup CaseVariants(<<"C", "L", "O", "U", "D", "S">>)
        \cup {<<>>,
            <<"S", "n", "o", "w">>,
            <<"m", "i", "s", "t">>,
            <<"r", "a", "i", "n", "s">>,
            <<"c", "l", "e", "a">>,
            <<"D", "r", "i", "z", "z", "l", "e">>,
            <<"c", "l", "e", "a", "r", " ">>,
            <<" ", "r", "a", "i", "n">>,
            <<"c", "l", "o", "u", "d">>,
            <<"H", "a", "z", "e">>,
            <<"c", "l", "e", "a", "r", "c", "l", "e", "a", "r">>}

RenderSnapshots ==
    [name : {InitialCity}, temp : TempInputs, main : {<<"C", "l", "e", "a", "r">>}]
        \cup [name : {InitialCity}, temp : {283}, main : ConditionInputs]

\* the state after the mount-time lookup has succeeded with some snapshot
InitRender ==
    \E d \in RenderSnapshots :
        /\ city = InitialCity
        /\ weatherData = Some(d)
        /\ temp = "celsius"
        /\ error = Null
        /\ loading = FALSE
        /\ mounted = TRUE
        /\ requests = {}
        /\ issued = 1
        /\ submitted = 0
        /\ last = Event("success", 1, 200, Some(d))

NextRender ==
    \/ SetTemp
    \/ Render

SpecRender == InitRender /\ [][NextRender]_vars

\* ---- properties ---------------------------------------------------------
\* C1: while at least one lookup is outstanding the loading indicator is
\* displayed and neither the error banner nor the result panel is.
C1_LoadingWhileOutstanding ==
    requests # {} => (ShowLoading /\ ~ShowError /\ ~ShowResult)

\* C2: right after a lookup completes successfully the snapshot is its
\* response, the error is none and loading is false, so the result panel is
\* displayed without error banner or loading indicator.
C2_SuccessDisplaysResult ==
    last.op = "success" =>
        /\ weatherData = last.body
        /\ error = Null
        /\ ~loading
        /\ ShowResult /\ ~ShowError /\ ~ShowLoading

\* C3: right after a lookup fails a non-empty error message is stored and
\* loading is false; the error banner is displayed and the result panel is
\* not, even when an earlier snapshot is still stored.
C3_FailureDisplaysError ==
    last.op = "fail" =>
        /\ error # Null /\ error[1] # ""
        /\ ~loading
        /\ ShowError /\ ~ShowResult

C3_Witness ==
    last.op = "fail" /\ weatherData # Null /\ requests = {}

\* C4: a submission made while the query is empty or all whitespace issues
\* no request and changes neither the query, the snapshot, the error, the
\* loading flag, the unit preference nor the outstanding lookups.
C4_BlankSubmitNoOp ==
    [][(last'.op = "submit" /\ IsBlank(city)) =>
          UNCHANGED <<city, weatherData, error, loading, temp, requests, issued>>]_vars

C4_Witness ==
    /\ last.op = "submit" /\ last.id = 0
    /\ IsBlank(city) /\ city # <<>>
    /\ requests # {} /\ loading

\* C5: a unit toggle issues no request and changes only the unit
\* preference, also while a lookup is outstanding.
C5_ToggleOnlyChangesUnit ==
    [][last'.op = "toggle" =>
          UNCHANGED <<city, weatherData, error, loading, requests, issued>>]_vars

C5_Witness ==
    last.op = "toggle" /\ temp = "fahrenheit" /\ requests # {} /\ weatherData # Null

\* C6: at most one of the loading indicator, the error banner and the
\* result panel is displayed.
C6_DisplayExclusive ==
    /\ ~(ShowLoading /\ ShowError)
    /\ ~(ShowLoading /\ ShowResult)
    /\ ~(ShowError /\ ShowResult)

C6_Witness ==
    /\ Cardinality(requests) >= 2
    /\ weatherData # Null
    /\ last.op = "submit" /\ last.id > 0
    /\ ShowLoading

\* C7: no two lookups are outstanding at the same time.
C7_SingleInFlight ==
    Cardinality(requests) <= 1

C9_OtherFailureIsGeneric ==
    (last.op = "fail" /\ last.status # 404 /\ ~ResponseOk(last.status)) =>
        error = Some(GenericMessage)

\* C10: a 404 response stores the city-not-found message, and a failed
\* response of any other status stores a different message.
C10_NotFoundDistinguished ==
    last.op = "fail" =>
        /\ last.status = 404 => error = Some(NotFoundMessage)
        /\ (last.status \in Statuses \ {404} /\ ~ResponseOk(last.status)) =>
               error # Some(NotFoundMessage)

C10_Witness ==
    last.op = "fail" /\ last.status = 404 /\ error = Some(NotFoundMessage)

\* reading a printed fixed-point number back as a count of tenths
DigitValue(c) == CHOOSE d \in 0..9 : DigitChars[d + 1] = c

RECURSIVE ParseDigits(_)
ParseDigits(s) ==
    IF s = <<>> THEN 0
    ELSE 10 * ParseDigits(SubSeq(s, 1, Len(s) - 1)) + DigitValue(s[Len(s)])

IsFixed1(s) ==
    LET u == IF s # <<>> /\ s[1] = "-" THEN Tail(s) ELSE s
        digits == {DigitChars[i] : i \in 1..10}
    IN  /\ Len(u) >= 3
        /\ u[Len(u) - 1] = "."
        /\ \A i \in (1..Len(u)) \ {Len(u) - 1} : u[i] \in digits
        /\ Len(u) > 3 => u[1] # "0"

ParseFixed1(s) ==
    LET neg == s[1] = "-"
        u == IF neg THEN Tail(s) ELSE s
        mag == 10 * ParseDigits(SubSeq(u, 1, Len(u) - 2)) + DigitValue(u[Len(u)])
    IN  IF neg THEN 0 - mag ELSE mag

Abs(x) == IF x < 0 THEN 0 - x ELSE x

\* C11: the displayed temperature is the stored value (Celsius mode) or
\* value*9/5+32 (Fahrenheit mode) rounded to one decimal place, in
\* particular 0 gives 32.0 and 100 gives 212.0 in Fahrenheit mode, and
\* computing it leaves the stored snapshot unchanged.
C11_ConvertTemp ==
    /\ [](last.op = "render" =>
            LET t == weatherData[1].temp
                shown == last.body[1].temperature
            IN  /\ IsFixed1(shown)
                /\ temp = "celsius" => ParseFixed1(shown) = t
                /\ temp = "fahrenheit" =>
                       2 * Abs(5 * ParseFixed1(shown) - (9 * t + 1600)) <= 5
                /\ (temp = "fahrenheit" /\ t = 0) => shown = <<"3", "2", ".", "0">>
                /\ (temp = "fahrenheit" /\ t = 1000) =>
                       shown = <<"2", "1", "2", ".", "0">>)
    /\ [][last'.op = "render" => UNCHANGED <<weatherData, temp>>]_vars

C11_Witness ==
    /\ last.op = "render" /\ temp = "fahrenheit"
    /\ weatherData[1].temp = 283
    /\ last.body[1].temperature = <<"8", "2", ".", "9">>

\* s is w (a lower-case keyword) up to the case of its letters
EqualsIgnoringCase(s, w) ==
    /\ Len(s) = Len(w)
    /\ \A i \in 1..Len(w) : s[i] = w[i] \/ <<s[i], w[i]>> \in CasePairs

\* C12: the condition keyword selects the icon case-insensitively: "clear"
\* the sun icon, "rain" the rain icon, "clouds" the cloud icon, and every
\* other string the default icon.
C12_IconMapping ==
    last.op = "render" =>
        LET c == weatherData[1].main
            icon == last.body[1].icon
        IN  /\ EqualsIgnoringCase(c, <<"c", "l", "e", "a", "r">>) => icon = SunIcon
            /\ EqualsIgnoringCase(c, <<"r", "a", "i", "n">>) => icon = RainIcon
            /\ EqualsIgnoringCase(c, <<"c", "l", "o", "u", "d", "s">>) => icon = CloudIcon
            /\ (~EqualsIgnoringCase(c, <<"c", "l", "e", "a", "r">>) /\ ~EqualsIgnoringCase(c, <<"r", "a", "i", "n">>)
                    /\ ~EqualsIgnoringCase(c, <<"c", "l", "o", "u", "d", "s">>)) => icon = DefaultIcon

C12_Witness ==
    /\ last.op = "render"
    /\ weatherData[1].main = <<"c", "L", "o", "U", "d", "S">>
    /\ last.body[1].icon = CloudIcon

\* C13: a lookup's result is applied when it arrives even if a later lookup
\* has been issued since, so an earlier lookup that settles last overwrites
\* the later one's result.
C13_ArrivalOrder ==
    /\ (last.op = "success" /\ last.id < issued) =>
           (weatherData = last.body /\ ~loading)
    /\ (last.op = "fail" /\ last.id < issued) =>
           (error # Null /\ ~loading)

C13_Witness ==
    /\ requests = {} /\ issued >= 2
    /\ last.op = "success" /\ last.id = 1
    /\ weatherData = last.body /\ weatherData[1].name = InitialCity
    /\ city # InitialCity /\ error = Null

\* C14: the stored snapshot changes only when a lookup completes
\* successfully, and then to that lookup's response; once stored it is never
\* reset to none.
C14_SnapshotFrame ==
    /\ [][weatherData' # weatherData =>
            (last'.op = "success" /\ weatherData' = last'.body)]_vars
    /\ [][weatherData # Null => weatherData' # Null]_vars

C14_Witness ==
    /\ last.op = "submit" /\ last.id = 0
    /\ weatherData # Null /\ error # Null

\* C15: a lookup that settles either stores its snapshot or stores an error
\* message (also when the body of a 2xx response cannot be parsed) and sets
\* loading to false; when every pending call settles, a state with no
\* lookup outstanding and loading false is eventually reached.
C15_LookupSettles ==
    /\ [](last.op = "success" => (weatherData = last.body /\ ~loading))
    /\ [](last.op = "fail" => (error # Null /\ ~loading))
    /\ []((last.op = "fail" /\ last.status = 200) =>
            \E msg \in ParseErrorMessages : error = Some(msg))
    /\ [][Cardinality(requests') < Cardinality(requests) =>
            last'.op \in {"success", "fail"}]_vars
    /\ (requests # {}) ~> (requests = {} /\ ~loading)

C15_Witness ==
    /\ last.op = "fail" /\ last.status = 200
    /\ requests = {} /\ ~loading /\ issued = MaxRequests

\* C16: when no lookup is outstanding and the mount-time lookup has
\* completed, loading is false and exactly one of the error banner and the
\* result panel is displayed.
C16_SettledDisplay ==
    (mounted /\ requests = {}) =>
        /\ ~loading
        /\ ShowError \/ ShowResult
        /\ ~(ShowError /\ ShowResult)

C16_Witness ==
    /\ mounted /\ requests = {} /\ issued >= 2
    /\ last.op = "success" /\ error # Null /\ weatherData # Null

\* C17: the query changes only on a keystroke; a submission, the start of a
\* lookup and a lookup's success or failure leave the query and the unit
\* preference unchanged.
C17_QueryFrame ==
    /\ [][city' # city => last'.op = "input"]_vars
    /\ [][last'.op \in {"mount", "submit", "response", "success", "fail"} =>
            UNCHANGED <<city, temp>>]_vars

C17_Witness ==
    /\ last.op = "submit" /\ last.id > 1
    /\ city \in Queries /\ ~IsBlank(city)
    /\ temp = "fahrenheit"

====
